---------------------------- MODULE Spec2Model ----------------------------
(***************************************************************************)
(* The request lifecycle and shutdown controller of td/telegram/Td.cpp:    *)
(* Td::request (the admission gate), Td::send_result / Td::send_error_impl *)
(* (the Pending Request Set request_set_), RequestActor / RequestOnceActor *)
(* (the request executors), and the close_flag_ / request_actor_refcnt_ /  *)
(* actor_refcnt_ teardown sequence.                                        *)
(*                                                                         *)
(* Td is an actor: every handler below runs to completion on one message   *)
(* of Td's mailbox.  The mailbox is a FIFO queue (Td::start_up calls       *)
(* always_wait_for_mailbox), so messages are handled in send order.        *)
(***************************************************************************)
EXTENDS Integers, Sequences, FiniteSets, TLC

(* ------------------------------ bounds -------------------------------- *)

\* Non-zero correlation ids are 1..MaxId; id 0 is the reserved one.
MaxId == 1
\* Slots of the request_actors_ container that may be in use at once.
MaxActors == 1
\* Messages that may wait in Td's mailbox at once.
MaxMailbox == 2
\* ActorShared<Td> references handed to collaborators by Td::init.
NumCollaborators == 1
\* The count of responses per admission saturates here.
MaxCount == 2

\* NetQuery ids run over 0..MaxQueryId (0 is the id of an update), result
\* handlers over 1..MaxHandlers, and result_handlers_ holds at most MaxTable
\* entries.
MaxQueryId == 2
MaxHandlers == 2
MaxTable == 2
\* The longest table Td::invalidate_handler is applied to on its own.
MaxEntries == 4

Ids == 0..MaxId
Slots == 1..MaxActors
QueryIds == 0..MaxQueryId
Handlers == 1..MaxHandlers

(* ----------------------------- responses ------------------------------ *)

NoObject == [kind |-> "none", code |-> 0, text |-> ""]
Result(text) == [kind |-> "result", code |-> 0, text |-> text]
Error(code, text) == [kind |-> "error", code |-> code, text |-> text]

(* ------------------------------ requests ------------------------------ *)

\* td_api::Function values a caller may pass; "null" is the nullptr payload.
\* valid = FALSE makes the operation's own validation fail: invalid
\* tdlibParameters, a key TdDb::open rejects, seconds out of range.
Functions ==
  { "null", "getAuthorizationState", "setTdlibParameters",
    "checkDatabaseEncryptionKey", "setDatabaseEncryptionKey",
    "close", "destroy", "setAlarm", "getInviteText", "setName",
    "getTermsOfService", "logOut" }

(* ------------------------------ state --------------------------------- *)

VARIABLES
  state_,                 \* Td::state_
  close_flag_,            \* Td::close_flag_
  destroy_flag_,          \* Td::destroy_flag_
  request_set_,           \* Td::request_set_
  request_actor_refcnt_,  \* Td::request_actor_refcnt_
  actor_refcnt_,          \* Td::actor_refcnt_
  stop_cnt_,              \* Td::stop_cnt_
  request_actors_,        \* slots of Td::request_actors_ holding an ActorOwn
  alarm_timeout_,         \* ids with a pending timeout in Td::alarm_timeout_
  auth_manager_,          \* "null" | "authorized" | "unauthorized"
  mailbox,                \* messages sent to Td and not yet handled
  actors,                 \* the request executors, by container slot
  references,             \* ActorShared<Td> references held by collaborators
  store,                  \* the persistent store (TdDb)
  promises,               \* <<id, holder>>: answers collaborators owe Td
  callback,               \* what TdCallback received in the last step, per id
  answered,               \* responses per id since its last admission
  on_closed_cnt,          \* calls of TdCallback::on_closed
  result_handlers_,       \* Td::result_handlers_: <<id, handler>> pairs
  handled,                \* calls of handler->on_result, per id and handler
  net_result,             \* what Td::on_result did in the last step
  net_call,               \* the call Td::on_result made in the last step
  update,                 \* the updateAuthorizationState of the last step
  status                  \* "running" | "stopped" | "crashed"

vars == << state_, close_flag_, destroy_flag_, request_set_,
           request_actor_refcnt_, actor_refcnt_, stop_cnt_, request_actors_,
           alarm_timeout_, auth_manager_, mailbox, actors, references, store,
           promises, callback, answered, on_closed_cnt, result_handlers_,
           handled, net_result, net_call, update, status >>

\* Td::on_result of a NetQuery: what became of it, its id, and the handler
\* it was given to (0: none).
NetResult(what, id, handler) == [what |-> what, id |-> id, handler |-> handler]
NoResult == NetResult("none", 0, 0)

\* The call Td::on_result hands the NetQuery to (the handler's on_result or
\* on_error, the UpdatesManager's on_get_updates or
\* schedule_get_difference) and result_handlers_ as it is when the call is
\* made.
NetCall(fn, table) == [fn |-> fn, table |-> table]
NoCall == NetCall("none", << >>)

\* The whole state as one record, so that a handler is an operator from
\* state to state and handlers compose the way the C++ calls nest.  A step
\* starts with nothing given to the callback yet.
Cur ==
  [ state_ |-> state_, close_flag_ |-> close_flag_,
    destroy_flag_ |-> destroy_flag_, request_set_ |-> request_set_,
    request_actor_refcnt_ |-> request_actor_refcnt_,
    actor_refcnt_ |-> actor_refcnt_, stop_cnt_ |-> stop_cnt_,
    request_actors_ |-> request_actors_, alarm_timeout_ |-> alarm_timeout_,
    auth_manager_ |-> auth_manager_, mailbox |-> mailbox, actors |-> actors,
    references |-> references, store |-> store, promises |-> promises,
    callback |-> [i \in Ids |-> NoObject], answered |-> answered,
    on_closed_cnt |-> on_closed_cnt, result_handlers_ |-> result_handlers_,
    handled |-> handled, net_result |-> NoResult, net_call |-> NoCall,
    update |-> NoObject,
    status |-> status ]

Becomes(S) ==
  /\ state_' = S.state_
  /\ close_flag_' = S.close_flag_
  /\ destroy_flag_' = S.destroy_flag_
  /\ request_set_' = S.request_set_
  /\ request_actor_refcnt_' = S.request_actor_refcnt_
  /\ actor_refcnt_' = S.actor_refcnt_
  /\ stop_cnt_' = S.stop_cnt_
  /\ request_actors_' = S.request_actors_
  /\ alarm_timeout_' = S.alarm_timeout_
  /\ auth_manager_' = S.auth_manager_
  /\ mailbox' = S.mailbox
  /\ actors' = S.actors
  /\ references' = S.references
  /\ store' = S.store
  /\ promises' = S.promises
  /\ callback' = S.callback
  /\ answered' = S.answered
  /\ on_closed_cnt' = S.on_closed_cnt
  /\ result_handlers_' = S.result_handlers_
  /\ handled' = S.handled
  /\ net_result' = S.net_result
  /\ net_call' = S.net_call
  /\ update' = S.update
  /\ status' = S.status

NoActor == [phase |-> "none", request_id_ |-> 0, once |-> FALSE, tries_left_ |-> 0]

Init ==
  /\ state_ = "WaitParameters"
  /\ close_flag_ = 0
  /\ destroy_flag_ = FALSE
  /\ request_set_ = {}
  /\ request_actor_refcnt_ = 0
  /\ actor_refcnt_ = 0
  /\ stop_cnt_ = 2
  /\ request_actors_ = {}
  /\ alarm_timeout_ = {}
  /\ auth_manager_ = "null"
  /\ mailbox = << >>
  /\ actors = [s \in Slots |-> NoActor]
  /\ references = 0
  /\ store = "unopened"
  /\ promises = {}
  /\ callback = [i \in Ids |-> NoObject]
  /\ answered = [i \in Ids |-> 0]
  /\ on_closed_cnt = 0
  /\ result_handlers_ = << >>
  /\ handled = [i \in QueryIds |-> [h \in Handlers |-> 0]]
  /\ net_result = NoResult
  /\ net_call = NoCall
  /\ update = Result("authorizationStateWaitTdlibParameters")
  /\ status = "running"

(* ------------------------- messages to Td ----------------------------- *)

Msg(type, id, obj) == [type |-> type, id |-> id, obj |-> obj]

\* send_closure(actor_id(this), ...) and send_closure_later: queue a message.
Post(S, m) == [S EXCEPT !.mailbox = Append(@, m)]

\* A failed CHECK / LOG(FATAL) / UNREACHABLE aborts the process.
Crash(S) == [S EXCEPT !.status = "crashed"]

(* --------------------------- the callback ----------------------------- *)

Min(a, b) == IF a < b THEN a ELSE b

\* callback_->on_result(id, object) / callback_->on_error(id, error)
Emit(S, id, obj) ==
  [S EXCEPT !.callback[id] = obj,
            !.answered[id] = Min(@ + 1, MaxCount)]


\* Td::send_update of an updateAuthorizationState
send_update(S, authorization_state) ==
  [S EXCEPT !.update = Result(authorization_state)]

(* ------------------- Td::send_result, Td::send_error ------------------ *)

\* A send that does not look at what erase returns.
Erased_ignored(S, id) == TRUE

\* request_set_.erase(id): the number of elements removed, as a truth value.
Erased(S, id) == id \in S.request_set_

\* Td::send_result
send_result(S, id, obj) ==
  IF id = 0 \/ Erased(S, id)
    THEN Emit([S EXCEPT !.request_set_ = @ \ {id}], id,
              IF obj = NoObject THEN Error(404, "Not Found") ELSE obj)
    ELSE S

\* Td::send_error_impl
send_error_impl(S, id, err) ==
  IF id = 0
    THEN Crash(S)                                   \* CHECK(id != 0)
    ELSE IF Erased(S, id)
           THEN Emit([S EXCEPT !.request_set_ = @ \ {id}], id, err)
           ELSE S

\* Td::send_error
send_error(S, id, err) == send_error_impl(S, id, err)

\* Td::send_error_raw
send_error_raw(S, id, code, text) == send_error_impl(S, id, Error(code, text))

\* Td::answer_ok_query: the answer is sent to Td itself, not given at once.
answer_ok_query(S, id, st) ==
  IF st.kind = "error"
    THEN Post(S, Msg("send_error", id, st))
    ELSE Post(S, Msg("send_result", id, Result("ok")))

\* Td::on_alarm_timeout; id 0 is the online timeout, which sends nothing here.
on_alarm_timeout(S, id) ==
  IF id = 0 THEN S ELSE send_result(S, id, Result("ok"))

(* --------------------------- the teardown ----------------------------- *)

\* Td::dec_stop_cnt; stop() runs Td::tear_down, which CHECKs close_flag_ == 5.
dec_stop_cnt(S) ==
  LET T == [S EXCEPT !.stop_cnt_ = @ - 1] IN
  IF T.stop_cnt_ = 0
    THEN IF T.close_flag_ = 5 THEN [T EXCEPT !.status = "stopped"] ELSE Crash(T)
    ELSE T

\* A dec_actor_refcnt that also tells the owner when the managers are gone.
dec_actor_refcnt_early_closed(S) ==
  LET T == [S EXCEPT !.actor_refcnt_ = @ - 1] IN
  IF T.actor_refcnt_ # 0 THEN T
  ELSE IF T.close_flag_ = 2 THEN
    Post([T EXCEPT !.actor_refcnt_ = @ + 1, !.close_flag_ = 3],
         Msg("hangup_shared", 0, NoObject))
  ELSE IF T.close_flag_ = 3 THEN
    [T EXCEPT !.auth_manager_ = "null",
              !.actor_refcnt_ = @ + 1,
              !.store = IF T.destroy_flag_ THEN "closing_destroy" ELSE "closing",
              !.on_closed_cnt = @ + 1,
              !.close_flag_ = 4]
  ELSE IF T.close_flag_ = 4 THEN
    dec_stop_cnt([T EXCEPT !.close_flag_ = 5, !.on_closed_cnt = @ + 1])
  ELSE Crash(T)

\* A dec_actor_refcnt that skips the stage of the temporary reference.
dec_actor_refcnt_skips(S) ==
  LET T == [S EXCEPT !.actor_refcnt_ = @ - 1] IN
  IF T.actor_refcnt_ # 0 THEN T
  ELSE IF T.close_flag_ \in {2, 3} THEN
    [T EXCEPT !.auth_manager_ = "null",
              !.actor_refcnt_ = @ + 1,
              !.store = IF T.destroy_flag_ THEN "closing_destroy" ELSE "closing",
              !.close_flag_ = 4]
  ELSE IF T.close_flag_ = 4 THEN
    dec_stop_cnt(
      [send_update([T EXCEPT !.close_flag_ = 5], "authorizationStateClosed")
         EXCEPT !.on_closed_cnt = @ + 1])
  ELSE Crash(T)

\* Td::dec_actor_refcnt
dec_actor_refcnt(S) ==
  LET T == [S EXCEPT !.actor_refcnt_ = @ - 1] IN
  IF T.actor_refcnt_ # 0 THEN T
  ELSE IF T.close_flag_ = 2 THEN
    \* create_reference() makes a temporary ActorShared; its destruction
    \* sends hangup_shared back to Td.
    Post([T EXCEPT !.actor_refcnt_ = @ + 1, !.close_flag_ = 3],
         Msg("hangup_shared", 0, NoObject))
  ELSE IF T.close_flag_ = 3 THEN
    \* the managers are destroyed; the store is closed with a promise that
    \* holds a reference until the store is done.
    [T EXCEPT !.auth_manager_ = "null",
              !.actor_refcnt_ = @ + 1,
              !.store = IF T.destroy_flag_ THEN "closing_destroy" ELSE "closing",
              !.close_flag_ = 4]
  ELSE IF T.close_flag_ = 4 THEN
    dec_stop_cnt(
      [send_update([T EXCEPT !.close_flag_ = 5], "authorizationStateClosed")
         EXCEPT !.on_closed_cnt = @ + 1])
  ELSE Crash(T)                                     \* UNREACHABLE()

\* A clear that answers 500 whether or not destroy_flag_ is set.
AnswerPending_closing(S) ==
  LET ids == S.request_set_ IN
  [S EXCEPT !.request_set_ = {},
            !.alarm_timeout_ = @ \ ids,
            !.callback = [i \in Ids |->
               IF i \in ids THEN Error(500, "Internal Server Error: closing")
               ELSE S.callback[i]],
            !.answered = [i \in Ids |->
               IF i \in ids THEN Min(S.answered[i] + 1, MaxCount)
               ELSE S.answered[i]]]

\* The loop of Td::clear that answers what is still in request_set_.
AnswerPending(S) ==
  LET err == IF S.destroy_flag_
               THEN Error(401, "Unauthorized")
               ELSE Error(500, "Internal Server Error: closing")
      ids == S.request_set_
      T == [S EXCEPT
              !.request_set_ = {},
              !.alarm_timeout_ = @ \ ids,
              !.callback = [i \in Ids |->
                 IF i \in ids THEN err ELSE S.callback[i]],
              !.answered = [i \in Ids |->
                 IF i \in ids THEN Min(S.answered[i] + 1, MaxCount)
                 ELSE S.answered[i]]]
  IN IF 0 \in ids THEN Crash(S) ELSE T              \* send_error_impl CHECK

\* Td::clear
\* A clear that leaves result_handlers_ as it is.
clear_keeps_handlers(S) ==
  IF S.close_flag_ >= 2 THEN S
  ELSE AnswerPending([S EXCEPT !.close_flag_ = 2])

\* Td::clear_handlers
clear_handlers(S) == [S EXCEPT !.result_handlers_ = << >>]

clear(S) ==
  IF S.close_flag_ >= 2 THEN S
  ELSE AnswerPending(clear_handlers([S EXCEPT !.close_flag_ = 2]))

\* Td::dec_request_actor_refcnt
dec_request_actor_refcnt(S) ==
  LET T == [S EXCEPT !.request_actor_refcnt_ = @ - 1] IN
  IF T.request_actor_refcnt_ = 0 THEN dec_actor_refcnt(clear(T)) ELSE T

\* A close_impl that begins the shutdown without leaving the state.
close_impl_keeps_state(S, destroy_flag, ub) ==
  Post([S EXCEPT !.destroy_flag_ = @ \/ destroy_flag,
                 !.close_flag_ = IF @ = 0 THEN 1 ELSE @],
       Msg("dec_request_actor_refcnt", 0, NoObject))

\* A close_impl that begins the shutdown again when it is under way.
close_impl_reenter(S, destroy_flag, ub) ==
  Post([S EXCEPT !.destroy_flag_ = @ \/ destroy_flag,
                 !.state_ = "Close",
                 !.close_flag_ = 1,
                 !.request_actors_ = {}],
       Msg("dec_request_actor_refcnt", 0, NoObject))

\* A close_impl that drains executors and collaborators in Decrypt too.
close_impl_drains(S, destroy_flag, ub) ==
  LET T == [S EXCEPT !.destroy_flag_ = @ \/ destroy_flag] IN
  IF T.close_flag_ # 0 THEN T
  ELSE IF T.state_ = "WaitParameters" /\ ub = "crash" THEN Crash(T)
  ELSE
    Post([T EXCEPT !.state_ = "Close",
                   !.close_flag_ = 1,
                   !.request_actors_ = {}],
         Msg("dec_request_actor_refcnt", 0, NoObject))

\* A close_impl whose Decrypt branch leaves state_ as it is.
close_impl_decrypt_state(S, destroy_flag, ub) ==
  LET T == [S EXCEPT !.destroy_flag_ = @ \/ destroy_flag] IN
  IF T.close_flag_ # 0 THEN T
  ELSE IF T.state_ = "Decrypt" THEN
    dec_actor_refcnt(
      [T EXCEPT !.store = IF destroy_flag THEN "destroyed" ELSE @,
                !.close_flag_ = 4])
  ELSE IF T.state_ = "WaitParameters" /\ ub = "crash" THEN Crash(T)
  ELSE
    Post([T EXCEPT !.state_ = "Close",
                   !.close_flag_ = 1,
                   !.request_actors_ = {}],
         Msg("dec_request_actor_refcnt", 0, NoObject))

\* A close_impl that notes the destroy flag only when it begins the shutdown.
close_impl_checks_first(S, destroy_flag, ub) ==
  IF S.close_flag_ # 0 THEN S
  ELSE
    LET T == [S EXCEPT !.destroy_flag_ = @ \/ destroy_flag] IN
    IF T.state_ = "Decrypt" THEN
      dec_actor_refcnt(
        [T EXCEPT !.store = IF destroy_flag THEN "destroyed" ELSE @,
                  !.state_ = "Close",
                  !.close_flag_ = 4])
    ELSE IF T.state_ = "WaitParameters" /\ ub = "crash" THEN Crash(T)
    ELSE
      Post([T EXCEPT !.state_ = "Close",
                     !.close_flag_ = 1,
                     !.request_actors_ = {}],
           Msg("dec_request_actor_refcnt", 0, NoObject))

\* Td::close_impl.  In WaitParameters no Global context is set yet
\* (set_context is called by set_td_parameters), so G()->set_close_flag()
\* and G()->td_db()->flush_all() act on a null context: ub is what that does.
close_impl(S, destroy_flag, ub) ==
  LET T == [S EXCEPT !.destroy_flag_ = @ \/ destroy_flag] IN
  IF T.close_flag_ # 0 THEN T
  ELSE IF T.state_ = "Decrypt" THEN
    dec_actor_refcnt(
      [T EXCEPT !.store = IF destroy_flag THEN "destroyed" ELSE @,
                !.state_ = "Close",
                !.close_flag_ = 4])
  ELSE IF T.state_ = "WaitParameters" /\ ub = "crash" THEN Crash(T)
  ELSE
    Post([T EXCEPT !.state_ = "Close",
                   !.close_flag_ = 1,
                   !.request_actors_ = {}],
         Msg("dec_request_actor_refcnt", 0, NoObject))

\* Td::close
close(S) == close_impl(S, FALSE, "proceed")

\* Td::destroy
destroy(S) == close_impl(S, TRUE, "proceed")

\* Td::on_authorization_lost
on_authorization_lost(S) == destroy(S)

\* Td::on_config_option_updated for the option "auth".
on_config_option_updated(S) ==
  IF S.close_flag_ # 0 THEN S ELSE on_authorization_lost(S)

\* Td::hangup: the owner of Td has dropped it.
hangup(S, ub) == dec_stop_cnt(close_impl(S, FALSE, ub))

\* Td::hangup_shared for a link token of type RequestActorIdType: the
\* executor in this slot has released its ActorShared<Td>.
hangup_shared_request(S, slot) ==
  dec_request_actor_refcnt(
    [S EXCEPT !.request_actors_ = @ \ {slot}, !.actors[slot] = NoActor])

\* Td::hangup_shared for a link token of type ActorIdType.
hangup_shared_actor(S) == dec_actor_refcnt(S)

(* ------------------------ bring-up (Td::init) ------------------------- *)

OkStatus == Result("ok")

\* Td::set_td_parameters: the Status it returns.
set_td_parameters_status(valid) ==
  IF valid THEN OkStatus ELSE Error(400, "Valid api_id must be provided")

\* A set_td_parameters that adds its guards before it validates.
set_td_parameters_guards_first(S, valid) ==
  LET T == [S EXCEPT !.request_actor_refcnt_ = @ + 1,
                     !.actor_refcnt_ = @ + 1] IN
  IF ~valid THEN T
  ELSE send_update([T EXCEPT !.state_ = "Decrypt"],
                   "authorizationStateWaitEncryptionKey")

\* Td::set_td_parameters: what it does to Td.  A failed validation returns
\* before the guards are added.
set_td_parameters(S, valid) ==
  IF ~valid THEN S
  ELSE send_update([S EXCEPT !.request_actor_refcnt_ = @ + 1,      \* guard
                             !.actor_refcnt_ = @ + 1,              \* guard
                             !.state_ = "Decrypt"],
                   "authorizationStateWaitEncryptionKey")

\* Td::init: the Status it returns; TdDb::open fails on a wrong key.
init_status(valid) ==
  IF valid THEN OkStatus ELSE Error(400, "TdDb::open failed")

\* Td::add_handler
add_handler(S, id, handler) ==
  [S EXCEPT !.result_handlers_ = Append(@, << id, handler >>)]

\* A Td::init that creates its collaborators before it opens the store.
init_creates_first(S, valid, authorized) ==
  LET T == [S EXCEPT !.actor_refcnt_ = @ + NumCollaborators,
                     !.references = @ + NumCollaborators]
  IN  IF ~valid THEN T
      ELSE [T EXCEPT !.store = "open",
                     !.auth_manager_ =
                        IF authorized THEN "authorized" ELSE "unauthorized",
                     !.state_ = "Run"]

\* Td::init: every collaborator is created with a create_reference().
init(S, valid, authorized) ==
  IF ~valid THEN S
  ELSE LET T == [S EXCEPT !.store = "open",
                          !.actor_refcnt_ = @ + NumCollaborators,
                          !.references = @ + NumCollaborators,
                          !.auth_manager_ =
                             IF authorized THEN "authorized"
                                           ELSE "unauthorized",
                          !.state_ = "Run"]
       IN  \* create_handler<GetNearestDcQuery>()->send(), as query 1 of
           \* handler 1
           IF authorized THEN T ELSE add_handler(T, 1, 1)

(* ---------------------- Td::on_request (state Run) -------------------- *)

FreeSlots(S) == { s \in Slots : S.actors[s].phase = "none" }

\* A CREATE_REQUEST that does not count the executor.
CREATE_REQUEST_uncounted(S, id, once) ==
  LET slot_id == CHOOSE s \in FreeSlots(S) : \A r \in FreeSlots(S) : s <= r IN
  [S EXCEPT !.request_actors_ = @ \cup {slot_id},
            !.actors[slot_id] =
               [phase |-> "start", request_id_ |-> id, once |-> once,
                tries_left_ |-> 2]]

\* CREATE_REQUEST / CREATE_NO_ARGS_REQUEST
CREATE_REQUEST(S, id, once) ==
  LET slot_id == CHOOSE s \in FreeSlots(S) : \A r \in FreeSlots(S) : s <= r IN
  [S EXCEPT !.request_actors_ = @ \cup {slot_id},
            !.request_actor_refcnt_ = @ + 1,
            !.actors[slot_id] =
               [phase |-> "start", request_id_ |-> id, once |-> once,
                tries_left_ |-> 2]]

\* CHECK_AUTH()
CHECK_AUTH(S) == S.auth_manager_ = "authorized"

\* The Td::on_request overloads.
on_request(S, id, fn, valid) ==
  CASE fn = "getAuthorizationState" ->
         \* send_closure(auth_manager_actor_, &AuthManager::get_state, id)
         [S EXCEPT !.promises = @ \cup {<<id, "AuthManager">>}]
    [] fn = "setTdlibParameters" ->
         send_error_raw(S, id, 400, "Unexpected setTdlibParameters")
    [] fn = "checkDatabaseEncryptionKey" ->
         send_error_raw(S, id, 400, "Unexpected checkDatabaseEncryptionKey")
    [] fn = "setDatabaseEncryptionKey" ->
         \* CREATE_REQUEST_PROMISE: the promise goes to Binlog::change_key
         [S EXCEPT !.promises = @ \cup {<<id, "Binlog">>}]
    [] fn = "close" -> send_result(close(S), id, Result("ok"))
    [] fn = "destroy" -> send_result(destroy(S), id, Result("ok"))
    [] fn = "setAlarm" ->
         IF ~valid
           THEN send_error_raw(S, id, 400, "Wrong parameter seconds specified")
           ELSE [S EXCEPT !.alarm_timeout_ = @ \cup {id}]
    [] fn = "getInviteText" ->
         IF ~CHECK_AUTH(S) THEN send_error_raw(S, id, 401, "Unauthorized")
         ELSE CREATE_REQUEST(S, id, FALSE)
    [] fn = "setName" ->
         IF ~CHECK_AUTH(S) THEN send_error_raw(S, id, 401, "Unauthorized")
         ELSE CREATE_REQUEST(S, id, TRUE)
    [] fn = "getTermsOfService" -> CREATE_REQUEST(S, id, FALSE)
    [] fn = "logOut" ->
         \* send_closure(auth_manager_actor_, &AuthManager::logout, id)
         [S EXCEPT !.promises = @ \cup {<<id, "logout">>}]
    [] OTHER -> S

(* ----------------------------- Td::request ---------------------------- *)

\* request_set_.insert(id).  The count of responses to id starts again
\* with every admission.
Admit(S, id) ==
  [S EXCEPT !.request_set_ = @ \cup {id}, !.answered[id] = 0]

\* A gate that lets what it should reject through to on_request.
WaitParametersGate_open(S, id, fn, valid) ==
  CASE fn = "getAuthorizationState" ->
         send_result(S, id, Result("authorizationStateWaitTdlibParameters"))
    [] fn = "setTdlibParameters" ->
         answer_ok_query(set_td_parameters(S, valid), id,
                         set_td_parameters_status(valid))
    [] OTHER -> on_request(S, id, fn, valid)

\* Td::request, case State::WaitParameters
WaitParametersGate(S, id, fn, valid) ==
  CASE fn = "getAuthorizationState" ->
         send_result(S, id, Result("authorizationStateWaitTdlibParameters"))
    [] fn = "setTdlibParameters" ->
         answer_ok_query(set_td_parameters(S, valid), id,
                         set_td_parameters_status(valid))
    [] OTHER ->
         send_error_raw(S, id, 401, "Initialization parameters are needed")

\* A gate that rejects with the code of a malformed request.
DecryptGate_400(S, id, fn, valid, authorized) ==
  CASE fn = "getAuthorizationState" ->
         send_result(S, id, Result("authorizationStateWaitEncryptionKey"))
    [] fn \in {"checkDatabaseEncryptionKey", "setDatabaseEncryptionKey"} ->
         answer_ok_query(init(S, valid, authorized), id, init_status(valid))
    [] fn = "close" -> close(S)
    [] fn = "destroy" -> destroy(S)
    [] OTHER ->
         send_error_raw(S, id, 400, "Database encryption key is needed")

\* Td::request, case State::Decrypt
DecryptGate(S, id, fn, valid, authorized) ==
  CASE fn = "getAuthorizationState" ->
         send_result(S, id, Result("authorizationStateWaitEncryptionKey"))
    [] fn \in {"checkDatabaseEncryptionKey", "setDatabaseEncryptionKey"} ->
         answer_ok_query(init(S, valid, authorized), id, init_status(valid))
    [] fn = "close" -> close(S)
    [] fn = "destroy" -> destroy(S)
    [] OTHER ->
         send_error_raw(S, id, 401, "Database encryption key is needed")

\* A gate that answers "closed" one stage early.
CloseGate_early(S, id, fn) ==
  IF fn = "getAuthorizationState"
    THEN IF S.close_flag_ >= 4
           THEN send_result(S, id, Result("authorizationStateClosed"))
           ELSE send_result(S, id, Result("authorizationStateClosing"))
    ELSE send_error_raw(S, id, 401, "Unauthorized")

\* A Close gate that still admits setTdlibParameters.
CloseGate_reopen(S, id, fn) ==
  IF fn = "setTdlibParameters"
    THEN answer_ok_query(set_td_parameters(S, TRUE), id, OkStatus)
    ELSE send_error_raw(S, id, 401, "Unauthorized")

\* Td::request, case State::Close
CloseGate(S, id, fn) ==
  IF fn = "getAuthorizationState"
    THEN IF S.close_flag_ = 5
           THEN send_result(S, id, Result("authorizationStateClosed"))
           ELSE send_result(S, id, Result("authorizationStateClosing"))
    ELSE send_error_raw(S, id, 401, "Unauthorized")

\* Td::request: switch (state_), and the downcast_call to on_request.
PhaseDispatch(S, id, fn, valid, authorized) ==
  CASE S.state_ = "WaitParameters" -> WaitParametersGate(S, id, fn, valid)
    [] S.state_ = "Decrypt" -> DecryptGate(S, id, fn, valid, authorized)
    [] S.state_ = "Close" -> CloseGate(S, id, fn)
    [] OTHER -> on_request(S, id, fn, valid)

\* A request that looks at the payload only after the phase dispatch.
request_dispatch_first(S0, id, fn, valid, authorized) ==
  LET S == Admit(S0, id) IN
  IF id = 0 THEN send_error_raw(S, id, 400, "Wrong request id == 0")
  ELSE IF S.state_ # "Run" THEN PhaseDispatch(S, id, fn, valid, authorized)
  ELSE IF fn = "null" THEN send_error_raw(S, id, 400, "Request is empty")
  ELSE PhaseDispatch(S, id, fn, valid, authorized)

\* Td::request
request(S0, id, fn, valid, authorized) ==
  LET S == Admit(S0, id) IN
  IF id = 0 THEN send_error_raw(S, id, 400, "Wrong request id == 0")
  ELSE IF fn = "null" THEN send_error_raw(S, id, 400, "Request is empty")
  ELSE PhaseDispatch(S, id, fn, valid, authorized)

(* ------------------------- request executors -------------------------- *)

\* Actor::stop(): the executor's ActorShared<Td> td_id_ is destroyed with
\* it, which sends hangup_shared with the slot as link token to Td.
stop(S, slot) ==
  Post([S EXCEPT !.actors[slot].phase = "stopped"],
       Msg("hangup_shared_request", slot, NoObject))

\* RequestActor::do_send_result: the default sends ok, an overriding
\* subclass sends the value do_set_result kept.
do_send_result(S, slot) ==
  Post(S, Msg("send_result", S.actors[slot].request_id_,
              IF S.actors[slot].once THEN Result("ok") ELSE Result("value")))

\* RequestActor::do_send_error
do_send_error(S, slot, err) ==
  Post(S, Msg("send_error", S.actors[slot].request_id_, err))

\* The error a collaborator resolves a promise with (RemoteFailure).
RemoteError == Error(400, "REMOTE_ERROR")

\* RequestActor::loop charging the budget for every attempt.
RequestActor_loop_charges(S, slot, run) ==
  LET T == [S EXCEPT !.actors[slot].tries_left_ = @ - 1] IN
  IF run = "error" THEN stop(do_send_error(T, slot, RemoteError), slot)
  ELSE IF run = "ok" THEN stop(do_send_result(T, slot), slot)
  ELSE
    IF T.actors[slot].tries_left_ = 0
      THEN stop(do_send_error(T, slot,
                  Error(400, "Requested data is unaccessible")), slot)
      ELSE [T EXCEPT !.actors[slot].phase = "wait"]

\* RequestActor::raw_event answering from the woken future directly.
raw_event_direct(S, slot, fut, run) ==
  IF fut = "error" THEN stop(do_send_error(S, slot, RemoteError), slot)
  ELSE stop(do_send_result(S, slot), slot)

\* A RequestActor::hangup that stops, releasing its reference, before it
\* sends the error.
RequestActor_hangup_release_first(S, slot) ==
  do_send_error(stop(S, slot), slot, Error(500, "Request aborted"))

\* RequestActor::hangup stopping without an answer.
RequestActor_hangup_silent(S, slot) == stop(S, slot)

\* RequestActor::loop giving up one attempt early.
RequestActor_loop_eager(S, slot, run) ==
  IF run = "error" THEN stop(do_send_error(S, slot, RemoteError), slot)
  ELSE IF run = "ok" THEN stop(do_send_result(S, slot), slot)
  ELSE
    LET T == [S EXCEPT !.actors[slot].tries_left_ = @ - 1] IN
    IF T.actors[slot].tries_left_ <= 1
      THEN stop(do_send_error(T, slot,
                  Error(400, "Requested data is unaccessible")), slot)
      ELSE [T EXCEPT !.actors[slot].phase = "wait"]

\* RequestActor::loop.  do_run is the subclass's: run is what became of the
\* promise by the time it returned ("ok", "error" or "pending").
RequestActor_loop(S, slot, run) ==
  IF run = "error" THEN stop(do_send_error(S, slot, RemoteError), slot)
  ELSE IF run = "ok" THEN stop(do_send_result(S, slot), slot)
  ELSE
    LET T == [S EXCEPT !.actors[slot].tries_left_ = @ - 1] IN
    IF T.actors[slot].tries_left_ = 0
      THEN stop(do_send_error(T, slot,
                  Error(400, "Requested data is unaccessible")), slot)
      ELSE [T EXCEPT !.actors[slot].phase = "wait"]

\* RequestOnceActor::loop calling do_run on every entry.
RequestOnceActor_loop_rerun(S, slot, run) ==
  RequestActor_loop(S, slot, run)

\* RequestOnceActor::loop
RequestOnceActor_loop(S, slot, run) ==
  IF S.actors[slot].tries_left_ < 2
    THEN stop(do_send_result(S, slot), slot)
    ELSE RequestActor_loop(S, slot, run)

\* The virtual call loop().
loop(S, slot, run) ==
  IF S.actors[slot].once
    THEN RequestOnceActor_loop(S, slot, run)
    ELSE RequestActor_loop(S, slot, run)

\* RequestActor::raw_event blaming every lost promise on a bug.
raw_event_always_bug(S, slot, fut, run) ==
  IF fut = "hangup"
    THEN stop(do_send_error(S, slot,
           Error(500, "Query can't be answered due to bug in the TDLib")), slot)
  ELSE IF fut = "error" THEN stop(do_send_error(S, slot, RemoteError), slot)
  ELSE loop(S, slot, run)

\* RequestActor::raw_event: the future the executor waits on is ready with
\* fut ("ok", "error" or "hangup").
raw_event(S, slot, fut, run) ==
  IF fut = "hangup" THEN
    LET is_authorized == S.auth_manager_ = "authorized" IN
    IF is_authorized
      THEN stop(do_send_error(S, slot,
             Error(500, "Query can't be answered due to bug in the TDLib")), slot)
      ELSE stop(do_send_error(S, slot, Error(401, "Unauthorized")), slot)
  ELSE IF fut = "error" THEN stop(do_send_error(S, slot, RemoteError), slot)
  ELSE loop(S, slot, run)

\* RequestActor::hangup letting a suspended executor finish its loop.
RequestActor_hangup_resume(S, slot) ==
  IF S.actors[slot].phase = "wait"
    THEN loop(S, slot, "ok")
    ELSE stop(do_send_error(S, slot, Error(500, "Request aborted")), slot)

\* RequestActor::hangup
RequestActor_hangup(S, slot) ==
  stop(do_send_error(S, slot, Error(500, "Request aborted")), slot)

(* ------------------------ result_handlers_ ---------------------------- *)

\* The positions of result_handlers_ that hold id.
Registered(S, id) ==
  { i \in DOMAIN S.result_handlers_ : S.result_handlers_[i][1] = id }

\* result_handlers_.erase(result_handlers_.begin() + i)
erase(table, i) ==
  [j \in 1..(Len(table) - 1) |-> IF j < i THEN table[j] ELSE table[j + 1]]

\* An extract_handler that leaves the entry in the table.
extract_handler_peek(S, id) ==
  IF Registered(S, id) = {} THEN [td |-> S, result |-> 0]
  ELSE
    LET i == CHOOSE k \in Registered(S, id) :
               \A l \in Registered(S, id) : k <= l IN
    [td |-> S, result |-> S.result_handlers_[i][2]]

\* Td::extract_handler: the first entry for id is removed and its handler
\* returned; result 0 is the null pointer.
extract_handler(S, id) ==
  IF Registered(S, id) = {} THEN [td |-> S, result |-> 0]
  ELSE
    LET i == CHOOSE k \in Registered(S, id) :
               \A l \in Registered(S, id) : k <= l IN
    [td |-> [S EXCEPT !.result_handlers_ = erase(@, i)],
     result |-> S.result_handlers_[i][2]]

\* An invalidate_handler without the i-- after an erase: the entry that
\* moves into the erased position is stepped over.
invalidate_handler_steps(S, handler) ==
  LET RECURSIVE scan(_, _)
      scan(table, i) ==
        IF i > Len(table) THEN table
        ELSE IF table[i][2] = handler
          THEN scan(erase(table, i), i + 1)
          ELSE scan(table, i + 1)
  IN  [S EXCEPT !.result_handlers_ = scan(@, 1)]

\* The loop of Td::invalidate_handler, i being the position looked at
\* (from 1): an entry of the handler is erased and, after i-- and i++, the
\* entry that moved into its position is looked at next.
RECURSIVE invalidate_handler_loop(_, _, _)
invalidate_handler_loop(table, handler, i) ==
  IF i > Len(table) THEN table
  ELSE IF table[i][2] = handler
    THEN invalidate_handler_loop(erase(table, i), handler, i)
    ELSE invalidate_handler_loop(table, handler, i + 1)

\* Td::invalidate_handler
invalidate_handler(S, handler) ==
  [S EXCEPT !.result_handlers_ = invalidate_handler_loop(@, handler, 1)]

\* A ResultHandler::on_result that does not look at the query's status.
ResultHandler_on_result_blind(S, id, handler, payload) ==
  [S EXCEPT !.net_result = NetResult("handled", id, handler),
            !.net_call = NetCall("on_result", S.result_handlers_),
            !.handled[id][handler] = @ + 1]

\* Td::ResultHandler::on_result(NetQueryPtr): the handler's on_result for
\* a query that is ok, its on_error for one that is an error.
ResultHandler_on_result(S, id, handler, payload) ==
  [S EXCEPT !.net_result = NetResult("handled", id, handler),
            !.net_call = NetCall(IF payload = "error" THEN "on_error"
                                                      ELSE "on_result",
                                 S.result_handlers_),
            !.handled[id][handler] = @ + 1]

\* An on_result that starts dropping one stage late.
on_result_gate_late(S, id, payload) ==
  IF S.close_flag_ > 2 THEN [S EXCEPT !.net_result = NetResult("closed", id, 0)]
  ELSE IF id = 0
    THEN [S EXCEPT !.net_result = NetResult("update", id, 0),
                   !.net_call =
                      NetCall(IF payload = "ok" THEN "on_get_updates"
                                                ELSE "schedule_get_difference",
                              << >>)]
  ELSE
    LET x == extract_handler(S, id) IN
    IF x.result = 0
      THEN [x.td EXCEPT !.net_result = NetResult("ignored", id, 0)]
      ELSE ResultHandler_on_result(x.td, id, x.result, payload)

\* An on_result that drops an update it cannot parse.
on_result_drops_garbled(S, id, payload) ==
  IF S.close_flag_ > 1 THEN [S EXCEPT !.net_result = NetResult("closed", id, 0)]
  ELSE IF id = 0
    THEN IF payload = "garbled"
           THEN [S EXCEPT !.net_result = NetResult("update", id, 0)]
           ELSE [S EXCEPT !.net_result = NetResult("update", id, 0),
                          !.net_call =
                             NetCall(IF payload = "ok"
                                       THEN "on_get_updates"
                                       ELSE "schedule_get_difference",
                                     << >>)]
  ELSE
    LET x == extract_handler(S, id) IN
    IF x.result = 0
      THEN [x.td EXCEPT !.net_result = NetResult("ignored", id, 0)]
      ELSE ResultHandler_on_result(x.td, id, x.result, payload)

\* Td::on_result(NetQueryPtr).  The payload of the query is "ok", "error",
\* or "garbled": ok, but not what telegram_api::Updates::fetch can parse.
on_result(S, id, payload) ==
  IF S.close_flag_ > 1 THEN [S EXCEPT !.net_result = NetResult("closed", id, 0)]
  ELSE IF id = 0
    \* an update: it goes to the UpdatesManager
    THEN [S EXCEPT !.net_result = NetResult("update", id, 0),
                   !.net_call =
                      NetCall(IF payload = "ok" THEN "on_get_updates"
                                                ELSE "schedule_get_difference",
                              << >>)]
  ELSE
    LET x == extract_handler(S, id) IN
    IF x.result = 0
      THEN [x.td EXCEPT !.net_result = NetResult("ignored", id, 0)]
      ELSE ResultHandler_on_result(x.td, id, x.result, payload)

(* ------------------------------ actions ------------------------------- *)

Running == status = "running"

\* A handler's outcome, kept within the mailbox bound.
Do(S) == Len(S.mailbox) <= MaxMailbox /\ Becomes(S)

\* What is left of the mailbox once its first message is taken.
Taken == [Cur EXCEPT !.mailbox = Tail(@)]

NextIs(type) == Running /\ mailbox # << >> /\ Head(mailbox).type = type

\* The operations whose own validation may fail, and those that open the
\* store: valid and authorized are inputs of these only.
KeyFunctions == {"checkDatabaseEncryptionKey", "setDatabaseEncryptionKey"}
Validated == KeyFunctions \cup {"setTdlibParameters", "setAlarm"}

\* The calls a client can make: an operation, whether its arguments pass the
\* operation's validation, and whether the store it opens holds an
\* authorization.
Calls ==
  { c \in [fn : Functions, valid : BOOLEAN, authorized : BOOLEAN] :
      /\ ~c.valid => c.fn \in Validated
      /\ ~c.authorized => c.fn \in KeyFunctions }

\* Whether on_request(fn) creates a request executor now.
CreatesExecutor(fn) ==
  \/ fn = "getTermsOfService"
  \/ fn \in {"getInviteText", "setName"} /\ auth_manager_ = "authorized"

\* The collaborator on_request(fn) hands the answering of the request to.
Holder(fn) ==
  CASE fn = "getAuthorizationState" -> "AuthManager"
    [] fn = "setDatabaseEncryptionKey" -> "Binlog"
    [] fn = "logOut" -> "logout"
    [] OTHER -> "none"

\* A caller's Td::request(id, function).  The slots of request_actors_ and
\* the answers one collaborator owes for one id are bounded.
Request(id, fn, valid, authorized) ==
  /\ Running
  /\ (state_ = "Run" /\ id # 0 /\ CreatesExecutor(fn)) => FreeSlots(Cur) # {}
  /\ (state_ = "Run" /\ id # 0) => <<id, Holder(fn)>> \notin promises
  /\ Do(request(Cur, id, fn, valid, authorized))

\* The owner of Td drops it: Td::hangup, once per Td.
Hangup(ub) ==
  /\ Running
  /\ stop_cnt_ = 2 \/ (stop_cnt_ = 1 /\ close_flag_ = 5)
  /\ Do(hangup(Cur, ub))

\* ConfigShared tells Td that the option "auth" changed: the authorization
\* is lost.  ConfigShared exists from Td::init on.
OnConfigOptionUpdated ==
  /\ Running
  /\ state_ = "Run"
  /\ Do(on_config_option_updated(Cur))

\* AuthManager::get_state: the AuthManager sends its state to Td.  The call
\* is lost with the AuthManager.
AuthManagerGetState(id) ==
  /\ Running
  /\ <<id, "AuthManager">> \in promises
  /\ Do(IF auth_manager_ = "null"
          THEN [Cur EXCEPT !.promises = @ \ {<<id, "AuthManager">>}]
          ELSE Post([Cur EXCEPT !.promises = @ \ {<<id, "AuthManager">>}],
                    Msg("send_result", id, Result("authorizationState"))))

\* AuthManager::logout is done: the AuthManager answers the request and
\* "will call Td::destroy later".  The call is lost with the AuthManager.
AuthManagerLogout(id) ==
  /\ Running
  /\ <<id, "logout">> \in promises
  /\ Do(IF auth_manager_ = "null"
          THEN [Cur EXCEPT !.promises = @ \ {<<id, "logout">>}]
          ELSE Post(Post([Cur EXCEPT !.promises = @ \ {<<id, "logout">>}],
                         Msg("send_result", id, Result("ok"))),
                    Msg("destroy", 0, NoObject)))

\* Td handles the Td::destroy the AuthManager sent.
OnDestroy ==
  /\ NextIs("destroy")
  /\ Do(destroy(Taken))

\* Binlog::change_key is done: the request promise sends the outcome to Td.
ChangeKeyDone(id, ok) ==
  /\ Running
  /\ <<id, "Binlog">> \in promises
  /\ Do(Post([Cur EXCEPT !.promises = @ \ {<<id, "Binlog">>}],
             IF ok THEN Msg("send_result", id, Result("ok"))
                   ELSE Msg("send_error", id, Error(400, "change_key failed"))))

\* Td handles the send_result at the head of its mailbox.
OnSendResult ==
  /\ NextIs("send_result")
  /\ Do(send_result(Taken, Head(mailbox).id, Head(mailbox).obj))

\* Td handles a send_error.
OnSendError ==
  /\ NextIs("send_error")
  /\ Do(send_error(Taken, Head(mailbox).id, Head(mailbox).obj))

\* Td handles the hangup_shared of a request executor.
OnHangupSharedRequest ==
  /\ NextIs("hangup_shared_request")
  /\ Do(hangup_shared_request(Taken, Head(mailbox).id))

\* Td handles the hangup_shared of a collaborator's reference.
OnHangupSharedActor ==
  /\ NextIs("hangup_shared")
  /\ Do(hangup_shared_actor(Taken))

\* Td handles the dec_request_actor_refcnt close_impl sent to it.
OnDecRequestActorRefcnt ==
  /\ NextIs("dec_request_actor_refcnt")
  /\ Do(dec_request_actor_refcnt(Taken))

\* Td handles an on_alarm_timeout.
OnAlarmTimeout ==
  /\ NextIs("on_alarm_timeout")
  /\ Do(on_alarm_timeout(Taken, Head(mailbox).id))

\* Td::on_alarm_timeout_callback: a timeout of alarm_timeout_ expires.
AlarmTimeoutCallback(id) ==
  /\ Running
  /\ id \in alarm_timeout_
  /\ Do(Post([Cur EXCEPT !.alarm_timeout_ = @ \ {id}],
             Msg("on_alarm_timeout", id, NoObject)))

\* A new executor runs its loop for the first time.
ActorLoop(slot, run) ==
  /\ Running
  /\ actors[slot].phase = "start"
  /\ Do(loop(Cur, slot, run))

\* A waiting executor is woken by its future.
ActorRawEvent(slot, fut, run) ==
  /\ Running
  /\ actors[slot].phase = "wait"
  /\ Do(raw_event(Cur, slot, fut, run))

\* An executor whose ActorOwn was destroyed (request_actors_.clear()) gets
\* the hangup event.
ActorHangup(slot) ==
  /\ Running
  /\ actors[slot].phase \in {"start", "wait"}
  /\ slot \notin request_actors_
  /\ Do(RequestActor_hangup(Cur, slot))

\* A collaborator that Td::clear has closed releases its reference.
ReleaseReference ==
  /\ Running
  /\ close_flag_ >= 2
  /\ references > 0
  /\ Do(Post([Cur EXCEPT !.references = @ - 1],
             Msg("hangup_shared", 0, NoObject)))

\* The store finishes closing: the promise of dec_actor_refcnt drops its
\* reference.
StoreClosed ==
  /\ Running
  /\ store \in {"closing", "closing_destroy"}
  /\ Do(Post([Cur EXCEPT !.store =
                IF @ = "closing" THEN "closed" ELSE "destroyed"],
             Msg("hangup_shared", 0, NoObject)))

\* A result handler sends a NetQuery: Td::ResultHandler::send_query.  The
\* issuers (request executors, Td::on_request, the managers) exist from
\* Td::init until Td::clear.
SendQuery(id, handler) ==
  /\ Running
  /\ state_ \in {"Run", "Close"}
  /\ auth_manager_ # "null"
  /\ close_flag_ < 2
  /\ Len(result_handlers_) < MaxTable
  /\ Becomes(add_handler(Cur, id, handler))

\* The network gives Td the answer to the query id, or an update (id 0).
OnResult(id, payload) ==
  /\ Running
  /\ state_ \in {"Run", "Close"}
  /\ \A h \in Handlers : handled[id][h] < MaxCount
  /\ Becomes(on_result(Cur, id, payload))

\* A result handler withdraws its registrations.
InvalidateHandler(handler) ==
  /\ Running
  /\ \E i \in DOMAIN result_handlers_ : result_handlers_[i][2] = handler
  /\ Becomes(invalidate_handler(Cur, handler))

Runs == {"ok", "error", "pending"}
Payloads == {"ok", "error", "garbled"}
Futures == {"ok", "error", "hangup"}

Next ==
  \/ \E id \in Ids, c \in Calls : Request(id, c.fn, c.valid, c.authorized)
  \/ \E ub \in {"crash", "proceed"} : Hangup(ub)
  \/ OnConfigOptionUpdated
  \/ \E id \in Ids : AuthManagerGetState(id)
  \/ \E id \in Ids, ok \in BOOLEAN : ChangeKeyDone(id, ok)
  \/ \E id \in Ids : AuthManagerLogout(id)
  \/ OnDestroy
  \/ OnSendResult
  \/ OnSendError
  \/ OnHangupSharedRequest
  \/ OnHangupSharedActor
  \/ OnDecRequestActorRefcnt
  \/ OnAlarmTimeout
  \/ \E id \in Ids : AlarmTimeoutCallback(id)
  \/ \E slot \in Slots, run \in Runs : ActorLoop(slot, run)
  \/ \E slot \in Slots, fut \in Futures, run \in Runs :
       ActorRawEvent(slot, fut, run)
  \/ \E slot \in Slots : ActorHangup(slot)
  \/ ReleaseReference
  \/ StoreClosed

Spec == Init /\ [][Next]_vars

\* What the actor scheduler guarantees: Td handles every message of its
\* mailbox, a timeout expires, a request executor gets to run, a hangup
\* event is delivered, the managers answer, and a closed collaborator lets
\* go of its reference.  Nothing makes a client call Td::request or drop
\* Td, and nothing here makes the promise an executor handed to do_run
\* resolve.
SchedulerFairness ==
  /\ WF_vars(OnSendResult)
  /\ WF_vars(OnSendError)
  /\ WF_vars(OnHangupSharedRequest)
  /\ WF_vars(OnHangupSharedActor)
  /\ WF_vars(OnDecRequestActorRefcnt)
  /\ WF_vars(OnAlarmTimeout)
  /\ \A id \in Ids : WF_vars(AlarmTimeoutCallback(id))
  /\ \A id \in Ids : WF_vars(AuthManagerGetState(id))
  /\ \A id \in Ids : WF_vars(ChangeKeyDone(id, TRUE))
  /\ \A id \in Ids : WF_vars(AuthManagerLogout(id))
  /\ WF_vars(OnDestroy)
  /\ \A slot \in Slots : WF_vars(ActorLoop(slot, "ok"))
  /\ \A slot \in Slots : WF_vars(ActorHangup(slot))
  /\ WF_vars(ReleaseReference)
  /\ WF_vars(StoreClosed)

SchedulerSpec == Spec /\ SchedulerFairness

\* Td as the network sees it: it is started with setTdlibParameters and
\* checkDatabaseEncryptionKey, result handlers send queries and the answers
\* come back, and the owner closes it.  Next has none of the three
\* result_handlers_ steps, so under Spec the table holds at most the query
\* Td::init sends.
StartCalls ==
  { c \in Calls : /\ c.fn \in {"setTdlibParameters", "checkDatabaseEncryptionKey"}
                  /\ c.valid }

TableNext ==
  \/ \E c \in StartCalls : Request(MaxId, c.fn, c.valid, c.authorized)
  \/ OnSendResult
  \/ \E id \in QueryIds \ {0}, h \in Handlers : SendQuery(id, h)
  \/ \E id \in QueryIds, payload \in Payloads : OnResult(id, payload)
  \/ \E h \in Handlers : InvalidateHandler(h)
  \/ \E ub \in {"crash", "proceed"} : Hangup(ub)
  \/ OnDecRequestActorRefcnt
  \/ OnHangupSharedActor
  \/ ReleaseReference
  \/ StoreClosed

TableSpec == Init /\ [][TableNext]_vars

\* Td with its clients, executors and collaborators, and a result handler
\* that sends queries whose answers are still outstanding at the shutdown.
QueryNext == Next \/ SendQuery(MaxQueryId, MaxHandlers)

QuerySpec == Init /\ [][QueryNext]_vars

\* Td running after Td::init with an authorized store, the two start-up
\* requests answered, and any table of at most MaxEntries registrations.
Tables ==
  UNION { [1..n -> (QueryIds \ {0}) \X Handlers] : n \in 0..MaxEntries }

InvalidateInit ==
  /\ state_ = "Run"
  /\ close_flag_ = 0
  /\ destroy_flag_ = FALSE
  /\ request_set_ = {}
  /\ request_actor_refcnt_ = 1
  /\ actor_refcnt_ = 1 + NumCollaborators
  /\ stop_cnt_ = 2
  /\ request_actors_ = {}
  /\ alarm_timeout_ = {}
  /\ auth_manager_ = "authorized"
  /\ mailbox = << >>
  /\ actors = [s \in Slots |-> NoActor]
  /\ references = NumCollaborators
  /\ store = "open"
  /\ promises = {}
  /\ callback = [i \in Ids |-> NoObject]
  /\ answered = [i \in Ids |-> IF i = MaxId THEN 1 ELSE 0]
  /\ on_closed_cnt = 0
  /\ result_handlers_ \in Tables
  /\ handled = [i \in QueryIds |-> [h \in Handlers |-> 0]]
  /\ net_result = NoResult
  /\ net_call = NoCall
  /\ update = NoObject
  /\ status = "running"

InvalidateNext ==
  \/ \E h \in Handlers : InvalidateHandler(h)
  \/ \E id \in QueryIds, payload \in Payloads : OnResult(id, payload)

InvalidateSpec == InvalidateInit /\ [][InvalidateNext]_vars

\* A collaborator that Td::clear has closed, and that has not yet released
\* its reference, still sends a NetQuery: the registration is made after
\* clear_handlers.
LateSendQuery(id, handler) ==
  /\ Running
  /\ close_flag_ >= 2
  /\ references > 0
  /\ Len(result_handlers_) < MaxTable
  /\ Becomes(add_handler(Cur, id, handler))

\* Td as the network sees it, with such late registrations.
LateNext ==
  \/ TableNext
  \/ \E id \in QueryIds \ {0}, h \in Handlers : LateSendQuery(id, h)

LateSpec == Init /\ [][LateNext]_vars

\* A collaborator lets go of its reference on its own, before Td::clear has
\* closed it.
EarlyRelease ==
  /\ Running
  /\ close_flag_ < 2
  /\ references > 0
  /\ Do(Post([Cur EXCEPT !.references = @ - 1],
             Msg("hangup_shared", 0, NoObject)))

\* Td with collaborators that release their references at any time.
ReleaseNext == Next \/ EarlyRelease

ReleaseSpec == Init /\ [][ReleaseNext]_vars

\* The scheduler's guarantees, and a collaborator that resolves the promise
\* of every waiting executor.
Fairness ==
  /\ SchedulerFairness
  /\ \A slot \in Slots : WF_vars(ActorRawEvent(slot, "ok", "ok"))

FairSpec == Spec /\ Fairness

(* ------------------------------ claims -------------------------------- *)

NonZeroIds == 1..MaxId
NoEmission == [i \in Ids |-> NoObject]
IsError(obj, code) == obj.kind = "error" /\ obj.code = code

\* Td handles a message of its mailbox that may answer a request.
TdSends == OnSendResult \/ OnSendError \/ OnAlarmTimeout

\* The fields "lifecycle state and counters" names.
Lifecycle ==
  << state_, close_flag_, destroy_flag_, request_actor_refcnt_,
     actor_refcnt_, stop_cnt_ >>

\* The request executors and their container.
Executors == << actors, request_actors_ >>

\* C1: between two admissions of an id the callback gets at most one
\* terminal response for it, and a send_result / send_error /
\* on_alarm_timeout for an id that is not in request_set_ gives the callback
\* nothing and leaves request_set_ as it is.
C1_AtMostOneResponse ==
  [][ /\ \A id \in NonZeroIds : answered'[id] <= 1
      /\ (TdSends /\ Head(mailbox).id \notin request_set_)
           => /\ callback' = NoEmission
              /\ answered' = answered
              /\ request_set_' = request_set_ ]_vars

\* C1's case: an answer for an id that was already answered waits in the
\* mailbox.
C1_Witness ==
  /\ mailbox # << >>
  /\ Head(mailbox).type \in {"send_result", "send_error"}
  /\ Head(mailbox).id \notin request_set_
  /\ answered[Head(mailbox).id] = 1

\* C2: every id admitted by Td::request, whatever the lifecycle state and the
\* operation, is eventually answered (and so leaves request_set_), as long
\* as Td has neither aborted nor been stopped by its owner.
C2_EveryAdmittedAnswered ==
  \A id \in NonZeroIds :
    (id \in request_set_) ~> (id \notin request_set_ \/ status # "running")

\* The error Td::clear gives to what is still pending.
ShutdownError(destroying) ==
  IF destroying THEN Error(401, "Unauthorized")
             ELSE Error(500, "Internal Server Error: closing")

\* A shutdown that began in Run is waiting for request_actor_refcnt_.
ClosingFromRun == close_flag_ = 1 /\ auth_manager_ # "null"

\* Td handles a message that may end the wait for the request executors.
TdCounts == OnDecRequestActorRefcnt \/ OnHangupSharedRequest

\* C3 as stated: whatever Td gives the callback, outside a new request, for
\* an id pending during a shutdown begun in Run is an error with code 500,
\* or with code 401 if the shutdown is a destroy.
C3_PendingGetShutdownError ==
  [][ \A id \in NonZeroIds :
        ( /\ ClosingFromRun
          /\ id \in request_set_
          /\ TdSends \/ TdCounts
          /\ callback'[id] # NoObject )
          => IsError(callback'[id], IF destroy_flag_ THEN 401 ELSE 500) ]_vars

\* C3, amended: an id pending during a shutdown begun in Run is eventually
\* answered; what is still in request_set_ when Td::clear runs gets 500
\* "Internal Server Error: closing", or 401 "Unauthorized" on a destroy, and
\* request_set_ is empty afterwards; an executor that gets the hangup
\* answers its id with 500 "Request aborted" instead.
C3_ClearAnswersPending ==
  /\ \A id \in NonZeroIds :
       (ClosingFromRun /\ id \in request_set_)
         ~> (id \notin request_set_ \/ status = "crashed")
  /\ [][ /\ (close_flag_ = 1 /\ close_flag_' >= 2)
             => /\ request_set_' = {}
                /\ \A id \in request_set_ :
                     callback'[id] = ShutdownError(destroy_flag_)
         /\ \A slot \in Slots :
              ActorHangup(slot)
                => /\ Len(mailbox') = Len(mailbox) + 2
                   /\ mailbox'[Len(mailbox) + 1] =
                        Msg("send_error", actors[slot].request_id_,
                            Error(500, "Request aborted")) ]_vars

\* C3's case: Td::clear has just answered a pending id.
C3_Witness ==
  /\ close_flag_ >= 2
  /\ ~destroy_flag_
  /\ \E id \in NonZeroIds : callback[id] = ShutdownError(destroy_flag_)

\* The claims about what a request does in a given state are written in
\* the contrapositive, "a step that lacks the effect is not such a request",
\* which is the same statement as "such a request has the effect".

\* C4: once close_flag_ is non-zero a request creates no executor, reaches
\* no operation handler (nothing is handed to a collaborator, no timeout is
\* set, no message is sent) and leaves request_actor_refcnt_ alone; unless
\* it is getAuthorizationState it is answered with a 401 error.
C4_NoAdmissionAfterClose ==
  [][ \A id \in NonZeroIds, c \in Calls :
        ( /\ close_flag_ # 0
          /\ c.fn # "null"
          /\ ~( /\ UNCHANGED Executors
                /\ UNCHANGED << request_actor_refcnt_, promises, alarm_timeout_,
                                mailbox >>
                /\ c.fn # "getAuthorizationState"
                     => IsError(callback'[id], 401) ) )
          => ~Request(id, c.fn, c.valid, c.authorized) ]_vars

\* C4's case: the shutdown waits for a live executor and a request has just
\* been turned away.
C4_Witness ==
  /\ close_flag_ = 1
  /\ ~destroy_flag_
  /\ auth_manager_ = "authorized"
  /\ \E slot \in Slots : actors[slot].phase \in {"start", "wait"}
  /\ \E id \in NonZeroIds : callback[id] = Error(401, "Unauthorized")

\* C5: in WaitParameters a request with a non-zero id and an operation other
\* than getAuthorizationState and setTdlibParameters is answered with a 401
\* error, creates no executor and leaves the lifecycle state, close_flag_
\* and both reference counts unchanged.
C5_WaitParametersRejects ==
  [][ \A id \in NonZeroIds, c \in Calls :
        ( /\ state_ = "WaitParameters"
          /\ c.fn \notin {"null", "getAuthorizationState", "setTdlibParameters"}
          /\ ~( /\ IsError(callback'[id], 401)
                /\ id \notin request_set_'
                /\ UNCHANGED Lifecycle
                /\ UNCHANGED Executors ) )
          => ~Request(id, c.fn, c.valid, c.authorized) ]_vars

\* C5's case: such a request has just been rejected.
C5_Witness ==
  /\ state_ = "WaitParameters"
  /\ \E id \in NonZeroIds :
       callback[id] = Error(401, "Initialization parameters are needed")

\* C6: in Close, getAuthorizationState is answered "closed" exactly when
\* close_flag_ = 5 and "closing" when close_flag_ is 1..4; every other
\* operation is answered with a 401 error; neither changes the lifecycle.
C6_CloseGate ==
  [][ \A id \in NonZeroIds, c \in Calls :
        ( /\ state_ = "Close"
          /\ c.fn # "null"
          /\ ~( /\ close_flag_ \in 1..5
                /\ c.fn = "getAuthorizationState" =>
                     callback'[id] =
                       IF close_flag_ = 5
                         THEN Result("authorizationStateClosed")
                         ELSE Result("authorizationStateClosing")
                /\ c.fn # "getAuthorizationState" => IsError(callback'[id], 401)
                /\ UNCHANGED Lifecycle
                /\ UNCHANGED Executors ) )
          => ~Request(id, c.fn, c.valid, c.authorized) ]_vars

\* C6's case: "closed" has just been answered.
C6_Witness ==
  /\ state_ = "Close"
  /\ close_flag_ = 5
  /\ \E id \in NonZeroIds : callback[id] = Result("authorizationStateClosed")

\* C7: in Decrypt an operation other than getAuthorizationState, the two key
\* operations, close and destroy is answered with a 401 error, and the
\* state stays Decrypt with close_flag_ = 0.
C7_DecryptRejects ==
  [][ \A id \in NonZeroIds, c \in Calls :
        ( /\ state_ = "Decrypt"
          /\ c.fn \notin {"null", "getAuthorizationState",
                          "checkDatabaseEncryptionKey",
                          "setDatabaseEncryptionKey", "close", "destroy"}
          /\ ~( /\ IsError(callback'[id], 401)
                /\ state_' = "Decrypt"
                /\ close_flag_' = 0
                /\ UNCHANGED Lifecycle
                /\ UNCHANGED Executors ) )
          => ~Request(id, c.fn, c.valid, c.authorized) ]_vars

\* C7's case: such a request has just been rejected.
C7_Witness ==
  /\ state_ = "Decrypt"
  /\ \E id \in NonZeroIds :
       callback[id] = Error(401, "Database encryption key is needed")

\* C8: a request with id 0 is answered with a 400 error and Td goes on
\* running with request_set_, the lifecycle state and the counters as they
\* were.
C8_ZeroIdRejected ==
  [][ \A c \in Calls :
        Request(0, c.fn, c.valid, c.authorized)
          => /\ IsError(callback'[0], 400)
             /\ status' = "running"
             /\ request_set_' = request_set_
             /\ UNCHANGED Lifecycle ]_vars

\* C9: a request with a non-zero id and a null payload is answered with a
\* 400 error whatever the lifecycle state; the id is not left in
\* request_set_ and the lifecycle state is unchanged.
C9_NullPayloadRejected ==
  [][ \A id \in NonZeroIds :
        Request(id, "null", TRUE, TRUE)
          => /\ callback'[id] = Error(400, "Request is empty")
             /\ id \notin request_set_'
             /\ UNCHANGED Lifecycle
             /\ UNCHANGED Executors ]_vars

\* C9's case: a null payload has just been rejected after the shutdown began.
C9_Witness ==
  /\ state_ = "Close"
  /\ \E id \in NonZeroIds : callback[id] = Error(400, "Request is empty")

\* C10: a request whose id is already in request_set_ is rejected with an
\* error and leaves the earlier call pending: the id stays in request_set_
\* and the executors, timeouts and owed answers are as they were.
C10_DuplicateRejected ==
  [][ \A id \in NonZeroIds, c \in Calls :
        (id \in request_set_ /\ Request(id, c.fn, c.valid, c.authorized))
          => /\ callback'[id].kind = "error"
             /\ id \in request_set_'
             /\ UNCHANGED Executors
             /\ UNCHANGED << promises, alarm_timeout_ >> ]_vars

\* C11: state_ only ever goes from WaitParameters to Decrypt, from Decrypt to
\* Run, or from any state to Close; once Close it stays Close.
C11_StateMonotonic ==
  [][ \/ state_' = state_
      \/ state_ = "WaitParameters" /\ state_' = "Decrypt"
      \/ state_ = "Decrypt" /\ state_' = "Run"
      \/ state_ # "Close" /\ state_' = "Close" ]_vars

\* C11's case: Td went through Decrypt and Run and its shutdown is complete.
C11_Witness ==
  /\ state_ = "Close"
  /\ close_flag_ = 5
  /\ store = "closed"
  /\ on_closed_cnt = 1

\* C12: close_flag_ is always in 0..5 and, once non-zero, never decreases.
C12_CloseFlagMonotonic ==
  [][ /\ close_flag_ \in 0..5
      /\ close_flag_' \in 0..5
      /\ close_flag_ # 0 => close_flag_' >= close_flag_ ]_vars

\* C12's case: the owner has dropped Td (a close() of its own) and the
\* teardown is between its stages.
C12_Witness ==
  /\ close_flag_ = 3
  /\ stop_cnt_ = 1

\* C13: request_actor_refcnt_ and actor_refcnt_ are never negative, whatever
\* the state the shutdown began in.
C13_RefcntsNonNegative ==
  request_actor_refcnt_ >= 0 /\ actor_refcnt_ >= 0

\* C14: a close() or destroy() invoked while close_flag_ is already non-zero
\* (the owner's hangup, a Td::destroy sent by the AuthManager) changes
\* neither state_, close_flag_, destroy_flag_ nor the reference counts, and
\* so neither the error pending ids get nor whether the store is erased.
C14_ReentryNoOp ==
  [][ (close_flag_ # 0 /\ (OnDestroy \/ \E ub \in {"crash", "proceed"} : Hangup(ub)))
        => UNCHANGED << state_, close_flag_, destroy_flag_,
                        request_actor_refcnt_, actor_refcnt_, request_set_,
                        store >> ]_vars


\* The step of an executor that gives up: it sends the 400 error for its
\* request and stops.
GivesUp(slot) ==
  /\ mailbox' = mailbox \o
       << Msg("send_error", actors[slot].request_id_,
              Error(400, "Requested data is unaccessible")),
          Msg("hangup_shared_request", slot, NoObject) >>
  /\ actors'[slot].phase = "stopped"

SendsOk(slot) ==
  /\ mailbox' = mailbox \o
       << Msg("send_result", actors[slot].request_id_, Result("ok")),
          Msg("hangup_shared_request", slot, NoObject) >>
  /\ actors' = [actors EXCEPT ![slot].phase = "stopped"]

SendsError(slot, err) ==
  /\ mailbox' = mailbox \o
       << Msg("send_error", actors[slot].request_id_, err),
          Msg("hangup_shared_request", slot, NoObject) >>
  /\ actors' = [actors EXCEPT ![slot].phase = "stopped"]

C18_HangupAborts ==
  [][ \A slot \in Slots :
        ActorHangup(slot) =>
          SendsError(slot, Error(500, "Request aborted"))
    ]_vars

C18_Witness ==
  \E slot \in Slots :
    /\ actors[slot].phase = "stopped"
    /\ actors[slot].tries_left_ = 1
    /\ \E i \in DOMAIN mailbox :
         mailbox[i] = Msg("send_error", actors[slot].request_id_,
                          Error(500, "Request aborted"))

\* C19: a delivery for a non-zero id that has an entry in result_handlers_
\* removes the first such entry and invokes its handler, once, and invokes
\* no other; a delivery for an id without an entry invokes nothing and
\* leaves the table as it is.  So a handler registered once is invoked by
\* the first of two deliveries only.
C19_DeliveredOnce ==
  [][ \A id \in QueryIds \ {0} :
        (\E payload \in Payloads : OnResult(id, payload)) =>
          IF \A i \in DOMAIN result_handlers_ : result_handlers_[i][1] # id
            THEN /\ UNCHANGED << result_handlers_, handled >>
                 /\ net_result'.handler = 0
            ELSE \E i \in DOMAIN result_handlers_ :
                   /\ result_handlers_[i][1] = id
                   /\ \A j \in 1..(i - 1) : result_handlers_[j][1] # id
                   /\ Len(result_handlers_') = Len(result_handlers_) - 1
                   /\ \A j \in DOMAIN result_handlers_' :
                        result_handlers_'[j] =
                          result_handlers_[IF j < i THEN j ELSE j + 1]
                   /\ net_result' =
                        NetResult("handled", id, result_handlers_[i][2])
                   /\ handled' =
                        [handled EXCEPT ![id][result_handlers_[i][2]] = @ + 1]
    ]_vars

C19_Witness ==
  \E id \in QueryIds \ {0}, h \in Handlers :
    /\ net_result = NetResult("ignored", id, 0)
    /\ handled[id][h] = 1
    /\ \A g \in Handlers \ {h} : handled[id][g] = 0
    /\ result_handlers_ = << >>
    /\ close_flag_ = 0

\* C20: result_handlers_ never holds two entries for one id.
C20_OneRegistrationPerId ==
  \A i, j \in DOMAIN result_handlers_ :
    result_handlers_[i][1] = result_handlers_[j][1] => i = j

\* C21: the step that begins a shutdown in state Decrypt ends it too:
\* close_flag_ goes from 0 to 5 (through 4) in that step, the guard of
\* actor_refcnt_ is released and on_closed is called, while nothing is
\* answered, no id leaves request_set_, the guard of request_actor_refcnt_
\* stays, and no message is queued to wait for.
C21_DecryptShortCircuit ==
  [][ (state_ = "Decrypt" /\ close_flag_ = 0 /\ close_flag_' # 0) =>
        /\ close_flag_' = 5
        /\ state_' = "Close"
        /\ actor_refcnt_ = 1 /\ actor_refcnt_' = 0
        /\ on_closed_cnt' = on_closed_cnt + 1
        /\ request_actor_refcnt_' = request_actor_refcnt_
        /\ request_set_ \subseteq request_set_'
        /\ callback' = NoEmission
        /\ Len(mailbox') <= Len(mailbox)
    ]_vars

C21_Witness ==
  /\ close_flag_ = 5
  /\ state_ = "Close"
  /\ store = "unopened"
  /\ request_actor_refcnt_ = 1
  /\ actor_refcnt_ = 0
  /\ request_set_ # {}

\* C22: TdCallback::on_closed is called at most once, in the step that
\* takes close_flag_ to 5 and in no other, so it has been called exactly
\* when close_flag_ is 5; and stop_cnt_ reaches 0, which stops Td, only
\* with close_flag_ = 5 (the CHECK of Td::tear_down never fails).
C22_ClosedOnce ==
  [][ /\ on_closed_cnt = (IF close_flag_ = 5 THEN 1 ELSE 0)
      /\ on_closed_cnt' = (IF close_flag_' = 5 THEN 1 ELSE 0)
      /\ on_closed_cnt' # on_closed_cnt =>
            close_flag_ # 5 /\ close_flag_' = 5
      /\ stop_cnt_' = 0 => close_flag_' = 5 /\ status' = "stopped"
      /\ status' = "stopped" => close_flag_' = 5 /\ stop_cnt_' = 0
    ]_vars

C22_Witness ==
  /\ status = "stopped"
  /\ stop_cnt_ = 0
  /\ close_flag_ = 5
  /\ on_closed_cnt = 1
  /\ store = "closed"

\* C23: in state WaitParameters a setTdlibParameters that validates moves
\* Td to Decrypt, adds the two guards, sends the update
\* authorizationStateWaitEncryptionKey and queues the answer ok; one that
\* does not validate leaves state_ and both counts alone, sends no update
\* and queues the error.  In state Decrypt getAuthorizationState is
\* answered authorizationStateWaitEncryptionKey.
C23_SetParameters ==
  [][ \A id \in NonZeroIds :
        /\ (state_ = "WaitParameters"
              /\ Request(id, "setTdlibParameters", TRUE, TRUE)) =>
             /\ state_' = "Decrypt"
             /\ update' = Result("authorizationStateWaitEncryptionKey")
             /\ request_actor_refcnt_' = request_actor_refcnt_ + 1
             /\ actor_refcnt_' = actor_refcnt_ + 1
             /\ mailbox' = Append(mailbox, Msg("send_result", id, Result("ok")))
        /\ (state_ = "WaitParameters"
              /\ Request(id, "setTdlibParameters", FALSE, TRUE)) =>
             /\ state_' = "WaitParameters"
             /\ update' = NoObject
             /\ UNCHANGED << request_actor_refcnt_, actor_refcnt_ >>
             /\ Len(mailbox') = Len(mailbox) + 1
             /\ mailbox'[Len(mailbox')].type = "send_error"
             /\ mailbox'[Len(mailbox')].id = id
        /\ (state_ = "Decrypt"
              /\ Request(id, "getAuthorizationState", TRUE, TRUE)) =>
             /\ callback'[id] = Result("authorizationStateWaitEncryptionKey")
             /\ state_' = "Decrypt"
    ]_vars

\* Td is in Decrypt, the answer ok to setTdlibParameters has been given, and
\* getAuthorizationState has just been answered.
C23_Witness ==
  \E id \in NonZeroIds :
    /\ state_ = "Decrypt"
    /\ request_actor_refcnt_ = 1
    /\ actor_refcnt_ = 1
    /\ mailbox = << >>
    /\ callback[id] = Result("authorizationStateWaitEncryptionKey")

\* C24: the step on which request_actor_refcnt_ reaches 0 runs Td::clear and
\* releases the guard of actor_refcnt_: after it close_flag_ is at least 2,
\* request_set_ and result_handlers_ are empty, every id that was pending
\* has just got its one response since it was admitted, the shutdown error,
\* and actor_refcnt_ is one less (or, having reached 0, holds the temporary
\* reference of stage 3).
C24_ClearOnLastExecutor ==
  [][ (request_actor_refcnt_ # 0 /\ request_actor_refcnt_' = 0) =>
        /\ close_flag_ = 1
        /\ close_flag_' >= 2
        /\ request_set_' = {}
        /\ result_handlers_' = << >>
        /\ \A id \in request_set_ :
             /\ callback'[id] = ShutdownError(destroy_flag_)
             /\ answered[id] = 0
             /\ answered'[id] = 1
        /\ \/ close_flag_' = 2 /\ actor_refcnt_' = actor_refcnt_ - 1
           \/ close_flag_' = 3 /\ actor_refcnt_ = 1 /\ actor_refcnt_' = 1
    ]_vars

C24_Witness ==
  \E id \in NonZeroIds :
    /\ request_actor_refcnt_ = 0
    /\ close_flag_ = 2
    /\ request_set_ = {}
    /\ result_handlers_ = << >>
    /\ ~destroy_flag_
    /\ callback[id] = Error(500, "Internal Server Error: closing")
    /\ answered[id] = 1
    /\ actor_refcnt_ = NumCollaborators

\* Td handles a message that decrements actor_refcnt_.
TdReleases ==
  OnHangupSharedActor \/ OnDecRequestActorRefcnt \/ OnHangupSharedRequest

\* C25: a step on which a decrement takes actor_refcnt_ to 0 is made with
\* close_flag_ 2, 3 or 4 and advances close_flag_ by exactly one, and
\* close_flag_ advances from 2 on in no other way; the decrement never finds
\* close_flag_ 0, 1 or 5 at zero, so none of these steps takes the
\* UNREACHABLE branch, whenever the collaborators release their references.
C25_ZeroAdvancesStage ==
  [][ /\ TdReleases => status' # "crashed"
      /\ (OnHangupSharedActor /\ actor_refcnt_ = 1) =>
            close_flag_ \in {2, 3, 4} /\ close_flag_' = close_flag_ + 1
      /\ (OnHangupSharedActor /\ actor_refcnt_ # 1) =>
            close_flag_' = close_flag_ /\ actor_refcnt_' = actor_refcnt_ - 1
      /\ (close_flag_ >= 2 /\ close_flag_' # close_flag_) =>
            close_flag_' = close_flag_ + 1 /\ actor_refcnt_ = 1
      /\ actor_refcnt_' = 0 =>
            close_flag_' = 5 \/ actor_refcnt_ = 0
    ]_vars

\* The collaborators released their references before the shutdown, and the
\* release of the guard took actor_refcnt_ to 0 at stage 2.
C25_Witness ==
  /\ close_flag_ = 3
  /\ actor_refcnt_ = 1
  /\ references = 0
  /\ store = "open"
  /\ request_actor_refcnt_ = 0

\* The executors that still hold their ActorShared<Td>, or whose
\* hangup_shared Td has not handled yet.
LiveExecutors == { s \in Slots : actors[s].phase # "none" }

\* close_impl has queued the release of the guard of request_actor_refcnt_
\* and Td has not handled it yet.
GuardQueued ==
  \E i \in DOMAIN mailbox : mailbox[i].type = "dec_request_actor_refcnt"

\* C26: once set_td_parameters has run and until the guard is released,
\* request_actor_refcnt_ is 1 plus the number of live executors; after a
\* shutdown begun in Run has released the guard it is that number; so it
\* is positive while an executor is live.
C26_CountsExecutors ==
  /\ state_ \in {"Decrypt", "Run"} =>
       request_actor_refcnt_ = 1 + Cardinality(LiveExecutors)
  /\ (state_ = "Close" /\ store # "unopened" /\ GuardQueued) =>
       request_actor_refcnt_ = 1 + Cardinality(LiveExecutors)
  /\ (state_ = "Close" /\ auth_manager_ # "null" /\ ~GuardQueued) =>
       request_actor_refcnt_ = Cardinality(LiveExecutors)
  /\ LiveExecutors # {} => request_actor_refcnt_ > 0

C26_Witness ==
  /\ state_ = "Close"
  /\ ~GuardQueued
  /\ LiveExecutors # {}
  /\ request_actor_refcnt_ = 1
  /\ close_flag_ = 1

\* The step of an executor that sends its result (the value do_set_result
\* kept, or the default ok of a RequestOnceActor) and stops, its budget
\* untouched.
SendsResult(slot) ==
  /\ mailbox' = mailbox \o
       << Msg("send_result", actors[slot].request_id_,
              IF actors[slot].once THEN Result("ok") ELSE Result("value")),
          Msg("hangup_shared_request", slot, NoObject) >>
  /\ actors' = [actors EXCEPT ![slot].phase = "stopped"]

\* C27: a loop whose do_run returns with the future already resolved ends
\* the executor in that step with tries_left_ as it was: a value is sent
\* with do_send_result, an error with do_send_error, and the executor is
\* stopped, not suspended.
C27_ResolvedAtOnce ==
  [][ \A slot \in Slots :
        /\ ActorLoop(slot, "ok") => SendsResult(slot)
        /\ ActorLoop(slot, "error") => SendsError(slot, RemoteError)
    ]_vars

C27_Witness ==
  \E slot \in Slots :
    /\ actors[slot].phase = "stopped"
    /\ actors[slot].tries_left_ = 2
    /\ ~actors[slot].once
    /\ \E i \in DOMAIN mailbox :
         mailbox[i] = Msg("send_result", actors[slot].request_id_,
                          Result("value"))

Terminal(queue, id) ==
  { i \in DOMAIN queue :
      queue[i].type \in {"send_result", "send_error"} /\ queue[i].id = id }

\* Some step of the executor in slot is taken.
ExecutorStep(slot) ==
  \/ \E run \in Runs : ActorLoop(slot, run)
  \/ \E fut \in {"ok", "error", "hangup"}, run \in Runs :
       ActorRawEvent(slot, fut, run)
  \/ ActorHangup(slot)

C30_KeyStep(id, c) ==
  IF c.valid
    THEN /\ state_' = "Run"
         /\ store' = "open"
         /\ auth_manager_' = (IF c.authorized THEN "authorized" ELSE "unauthorized")
         /\ actor_refcnt_' = actor_refcnt_ + NumCollaborators
         /\ references' = references + NumCollaborators
         /\ result_handlers_' =
              (IF c.authorized THEN result_handlers_
                               ELSE Append(result_handlers_, << 1, 1 >>))
         /\ mailbox' = Append(mailbox, Msg("send_result", id, Result("ok")))
    ELSE /\ state_' = "Decrypt"
         /\ UNCHANGED << store, auth_manager_, actor_refcnt_, references,
                         close_flag_, request_actor_refcnt_, result_handlers_ >>
         /\ mailbox' = Append(mailbox, Msg("send_error", id,
                                           Error(400, "TdDb::open failed")))

\* C30: in Decrypt a checkDatabaseEncryptionKey or setDatabaseEncryptionKey
\* whose store open succeeds brings Td up and sets state_ to Run; one whose
\* open fails is answered with that error, adds no collaborator reference and
\* leaves state_ = Decrypt, so that the key operation can be tried again.
C30_KeyOpensOrRetries ==
  [][ \A id \in NonZeroIds, c \in Calls :
        ( /\ state_ = "Decrypt"
          /\ c.fn \in {"checkDatabaseEncryptionKey", "setDatabaseEncryptionKey"}
          /\ ~C30_KeyStep(id, c) )
          => ~Request(id, c.fn, c.valid, c.authorized) ]_vars

C30_Witness ==
  /\ state_ = "Decrypt"
  /\ store = "unopened"
  /\ actor_refcnt_ = 1
  /\ references = 0
  /\ \E i \in DOMAIN mailbox :
       /\ mailbox[i].type = "send_error"
       /\ mailbox[i].obj = Error(400, "TdDb::open failed")

\* A step in which Td::destroy is invoked: by a destroy request in Decrypt or
\* Run (in WaitParameters and Close the request is rejected before), by
\* Td::on_authorization_lost, or by the Td::destroy the AuthManager sends
\* after a logout.
DestroyInvoked ==
  \/ \E id \in NonZeroIds :
       state_ \in {"Decrypt", "Run"} /\ Request(id, "destroy", TRUE, TRUE)
  \/ OnConfigOptionUpdated
  \/ OnDestroy

\* C31: the step that takes close_flag_ from 3 to 4 closes the store with
\* erasure exactly when destroy_flag_ is set, and destroy_flag_ is set
\* exactly when Td::destroy has been invoked in some earlier step: every
\* invocation sets it, whatever close_flag_ is, only an invocation sets it,
\* and it is never reset.
C31_ErasureIffDestroy ==
  [][ /\ (close_flag_ = 3 /\ close_flag_' = 4) =>
           store' = (IF destroy_flag_ THEN "closing_destroy" ELSE "closing")
      /\ destroy_flag_ => destroy_flag_'
      /\ DestroyInvoked => destroy_flag_'
      /\ (~destroy_flag_ /\ destroy_flag_') => DestroyInvoked ]_vars

\* C31's case: the store is being closed with erasure after a shutdown in
\* which both the owner's hangup (a close()) and a destroy() were invoked.
C31_Witness ==
  /\ close_flag_ = 4
  /\ store = "closing_destroy"
  /\ destroy_flag_
  /\ stop_cnt_ = 1

\* Where Td::on_result sends a query with id 0 that it does not drop.
UpdateCall(payload) ==
  IF payload = "ok" THEN "on_get_updates" ELSE "schedule_get_difference"

\* C32 (as stated): a query with id 0 leaves result_handlers_ alone, reaches
\* no handler, and goes to the UpdatesManager: to schedule_get_difference if
\* it is an error or cannot be parsed.
C32_ZeroIdResync ==
  [][ \A payload \in Payloads :
        OnResult(0, payload) =>
          /\ UNCHANGED << result_handlers_, handled >>
          /\ net_result'.handler = 0
          /\ net_call' = NetCall(UpdateCall(payload), << >>) ]_vars

\* C32: a query with id 0 leaves result_handlers_ alone and reaches no
\* handler; while close_flag_ is at most 1 it goes to the UpdatesManager, to
\* schedule_get_difference if it is an error or cannot be parsed and to
\* on_get_updates otherwise; once close_flag_ is above 1 it is dropped.
C32_ZeroIdResyncUntilClear ==
  [][ \A payload \in Payloads :
        OnResult(0, payload) =>
          /\ UNCHANGED << result_handlers_, handled >>
          /\ net_result'.handler = 0
          /\ IF close_flag_ <= 1
               THEN /\ net_result' = NetResult("update", 0, 0)
                    /\ net_call' = NetCall(UpdateCall(payload), << >>)
               ELSE /\ net_result' = NetResult("closed", 0, 0)
                    /\ net_call' = NoCall ]_vars

\* C32's case: an update that could not be used has just made Td ask for the
\* difference while a handler is registered.
C32_Witness ==
  /\ net_result = NetResult("update", 0, 0)
  /\ net_call.fn = "schedule_get_difference"
  /\ result_handlers_ # << >>

\* C33: a response for a non-zero id that is registered, arriving while
\* Td::on_result still delivers (close_flag_ at most 1), takes the first
\* entry of the id out of result_handlers_ and leaves every other entry in
\* place; the handler of that entry is then called once, with the entry
\* already gone from the table: its on_result if the query is ok, its
\* on_error if the query is an error.
C33_ExtractThenCall ==
  [][ \A id \in QueryIds \ {0}, payload \in Payloads :
        ( /\ close_flag_ <= 1
          /\ Registered(Cur, id) # {}
          /\ OnResult(id, payload) ) =>
          \E i \in Registered(Cur, id) :
            /\ \A k \in Registered(Cur, id) : i <= k
            /\ result_handlers_' = erase(result_handlers_, i)
            /\ net_result' = NetResult("handled", id, result_handlers_[i][2])
            /\ net_call' =
                 NetCall(IF payload = "error" THEN "on_error" ELSE "on_result",
                         erase(result_handlers_, i))
            /\ handled' = [handled EXCEPT ![id][result_handlers_[i][2]] = @ + 1]
    ]_vars

\* C33's case: a failed query has just been given to its handler's on_error
\* while another registration stays in the table.
C33_Witness ==
  /\ net_result.what = "handled"
  /\ net_call.fn = "on_error"
  /\ net_call.table = result_handlers_
  /\ Len(result_handlers_) = 1

\* C34: Td::invalidate_handler(h) leaves exactly the entries of the other
\* handlers in result_handlers_, in the order they had, however many
\* entries h has and wherever they are, and calls nothing; and a response
\* for an id never makes Td call a handler that has no entry for that id,
\* so none at all if the id lost all its entries.
C34_InvalidateAll ==
  [][ /\ \A h \in Handlers :
           InvalidateHandler(h) =>
             /\ result_handlers_' =
                  SelectSeq(result_handlers_, LAMBDA e : e[2] # h)
             /\ UNCHANGED handled
             /\ net_call' = NoCall
      /\ \A id \in QueryIds, h \in Handlers, payload \in Payloads :
           ( /\ \A i \in DOMAIN result_handlers_ : result_handlers_[i] # << id, h >>
             /\ OnResult(id, payload) ) =>
             /\ handled'[id][h] = handled[id][h]
             /\ net_result'.handler # h
    ]_vars

\* C34's case: the table holds entries of one handler only, no handler was
\* ever called, and a response for an id that has no entry has just found
\* no handler.
C34_Witness ==
  /\ result_handlers_ = << << 1, 1 >>, << 1, 1 >> >>
  /\ handled = [i \in QueryIds |-> [h \in Handlers |-> 0]]
  /\ net_result = NetResult("ignored", 2, 0)

\* C35: once a shutdown has begun (close(), destroy() or the owner's hangup,
\* in WaitParameters, Decrypt or Run), close_flag_ eventually reaches 5,
\* given that Td handles its messages, the executors and collaborators
\* release their references and the store finishes closing.
C35_ShutdownCompletes ==
  (close_flag_ # 0 /\ status = "running")
    ~> (close_flag_ = 5 \/ status # "running")

\* C36: in every reachable state, state_ is Close exactly when close_flag_ is
\* not 0.
C36_CloseIffFlag ==
  (state_ = "Close") <=> (close_flag_ # 0)

\* C36's case: a shutdown begun in Decrypt is complete.
C36_Witness ==
  /\ state_ = "Close"
  /\ close_flag_ = 5
  /\ store = "unopened"
  /\ request_actor_refcnt_ = 1

\* C37: whenever close_flag_ is 5 (and Td has not aborted), no id is left in
\* request_set_ without its answer (at the latest a send_result or
\* send_error already queued in Td's mailbox), whatever the state the
\* shutdown began in.
C37_ClosedMeansAnswered ==
  (close_flag_ = 5 /\ status # "crashed")
    => \A id \in request_set_ : Terminal(mailbox, id) # {}

\* The error of a hung-up executor for the request id.
Aborted(id) == Msg("send_error", id, Error(500, "Request aborted"))

\* C38: an executor that gets the hangup queues its error before the release
\* of its reference; when Td handles that release, the executor's error is
\* no longer in the mailbox (it was handled before); and when Td::clear runs
\* (close_flag_ goes from 1 to 2), at the earliest in the step that handles
\* the last release, the request of the executor being released is not in
\* request_set_, so the error Td::clear makes up is not given to it.
C38_AbortedBeforeClear ==
  [][ \A slot \in Slots :
        /\ ActorHangup(slot) =>
             mailbox' = mailbox \o
               << Aborted(actors[slot].request_id_),
                  Msg("hangup_shared_request", slot, NoObject) >>
        /\ (OnHangupSharedRequest /\ Head(mailbox).id = slot) =>
             \A i \in DOMAIN mailbox :
               mailbox[i] # Aborted(actors[slot].request_id_)
        /\ (close_flag_ = 1 /\ close_flag_' = 2 /\ actors[slot].phase # "none") =>
             /\ actors[slot].request_id_ \notin request_set_
             /\ callback'[actors[slot].request_id_] = NoObject
    ]_vars

\* C38's case: during a shutdown Td has just given the callback the error of
\* a hung-up executor, whose release is the next message; the guard is
\* released already, so that release will run Td::clear.
C38_Witness ==
  \E slot \in Slots :
    /\ close_flag_ = 1
    /\ request_actor_refcnt_ = 1
    /\ actors[slot].phase = "stopped"
    /\ callback[actors[slot].request_id_] = Error(500, "Request aborted")
    /\ mailbox = << Msg("hangup_shared_request", slot, NoObject) >>

\* C39: once close_flag_ is 2 or more, Td::on_result drops every query,
\* whatever its id and payload: result_handlers_ is left as it is, no
\* handler is called and nothing goes to the UpdatesManager, also when the
\* id was registered after clear_handlers had emptied the table.
C39_DropsAfterClear ==
  [][ \A id \in QueryIds, payload \in Payloads :
        (close_flag_ >= 2 /\ OnResult(id, payload)) =>
          /\ UNCHANGED << result_handlers_, handled >>
          /\ net_result' = NetResult("closed", id, 0)
          /\ net_call' = NoCall ]_vars

\* C39's case: the answer to a query that was registered after Td::clear has
\* just been dropped, and its registration is still in the table.
C39_Witness ==
  /\ close_flag_ >= 2
  /\ net_result.what = "closed"
  /\ net_result.id # 0
  /\ Registered(Cur, net_result.id) # {}

=========================================================================
